---- MODULE Spec2Model ----
(***************************************************************************)
(* Delegation / suspend / approve / resume engine of my_agent's travel     *)
(* supervisor (src/my_agent/travel_agent.py) and its four worker agents    *)
(* (src/my_agent/utils/tool_agents/*.py).                                  *)
(*                                                                         *)
(* The supervisor and the workers are LangChain agents (create_agent): a   *)
(* loop "model node -> HumanInTheLoopMiddleware.after_model -> tools node" *)
(* whose state is saved by a checkpointer under a thread_id.  The language *)
(* model is an input: every response it can give (a final answer, or a     *)
(* batch of tool calls) is enumerated.                                     *)
(***************************************************************************)
EXTENDS Integers, Sequences, FiniteSets, TLC

(* ---------------------------- bounds ---------------------------------- *)
\* what the environment does in one run of the model, counted together: user
\* turns, delegate tool calls requested by the supervisor's model, tool calls
\* requested by the workers' models, restarts of the process
MaxInputs == 4
\* delegate tool calls in one response of the supervisor's model
MaxParallel == 2
\* tool calls in one response of a worker's model
MaxBatch == 2
\* turns of the demo agent
MaxDemoTurns == 12
\* words and semicolons in a query given to execute_sql
MaxQueryLen == 3

(* ------------------------ static configuration ------------------------ *)
Workers == {"flight", "hotel", "car", "excursion"}

Decisions == {"approve", "reject"}

\* tools=[...] of each create_agent call
ToolsOf(w) ==
  CASE w = "flight" ->
         {"fetch_user_flight_information", "search_flights",
          "update_ticket_to_new_flight", "cancel_ticket"}
    [] w = "hotel" ->
         {"search_available_hotels", "search_user_hotels", "update_hotel",
          "cancel_hotel", "book_hotel"}
    [] w = "car" ->
         {"search_available_cars", "search_rental_orders", "update_rental_order",
          "cancel_rental_order", "create_rental_order"}
    [] w = "excursion" ->
         {"search_trip_recommendations", "update_excursion", "cancel_excursion",
          "book_excursion", "search_excursions"}

\* (a flight policy that has no entry for search_flights)
FlightInterruptOnNoSearch ==
  [t \in {"fetch_user_flight_information",
          "update_ticket_to_new_flight", "cancel_ticket"} |->
     IF t \in {"update_ticket_to_new_flight", "cancel_ticket"}
     THEN {"approve", "reject"} ELSE {}]

\* interrupt_on={...} of each HumanInTheLoopMiddleware: tool name -> the set of
\* allowed decisions; False (never interrupt) is the empty set
FlightInterruptOn ==
  [t \in {"fetch_user_flight_information", "search_flights",
          "update_ticket_to_new_flight", "cancel_ticket"} |->
     IF t \in {"update_ticket_to_new_flight", "cancel_ticket"}
     THEN {"approve", "reject"} ELSE {}]

HotelInterruptOn ==
  [t \in {"search_available_hotels", "search_user_hotels", "book_hotel",
          "update_hotel", "cancel_hotel"} |->
     IF t \in {"book_hotel", "update_hotel", "cancel_hotel"}
     THEN {"approve", "reject"} ELSE {}]

CarInterruptOn ==
  [t \in {"search_available_cars", "search_rental_orders", "update_rental_order",
          "cancel_rental_order", "create_rental_order"} |->
     IF t \in {"update_rental_order", "cancel_rental_order", "create_rental_order"}
     THEN {"approve", "reject"} ELSE {}]

ExcursionInterruptOn ==
  [t \in {"search_trip_recommendations", "search_excursions", "book_excursion",
          "update_excursion", "cancel_excursion"} |->
     IF t \in {"book_excursion", "update_excursion", "cancel_excursion"}
     THEN {"approve", "reject"} ELSE {}]

InterruptOn(w) ==
  CASE w = "flight" -> FlightInterruptOn
    [] w = "hotel" -> HotelInterruptOn
    [] w = "car" -> CarInterruptOn
    [] w = "excursion" -> ExcursionInterruptOn

\* (a middleware that interrupts on every tool that has an entry)
GuardedWhateverEntry(w, t) == t \in DOMAIN InterruptOn(w)

\* HumanInTheLoopMiddleware.after_model interrupts on a tool call iff the tool
\* has an interrupt_on entry that is not False
Guarded(w, t) == t \in DOMAIN InterruptOn(w) /\ InterruptOn(w)[t] # {}

\* (a supervisor whose delegate tools all ask for a decision)
SupervisorInterruptOnDelegates == [t \in Workers |-> {"approve", "reject"}]

\* the supervisor's create_agent has tools=[call_flight_subagent,
\* call_hotel_subagent, call_car_subagent, call_excursion_subagent] (named here
\* by their worker) and no middleware: no tool has an interrupt_on entry
SupervisorInterruptOn == [t \in {} |-> {}]

SupervisorGuarded(t) ==
  t \in DOMAIN SupervisorInterruptOn /\ SupervisorInterruptOn[t] # {}


(* ------------------------------ messages ------------------------------ *)
HumanMessage == [k |-> "human", calls |-> <<>>, ref |-> 0, st |-> "-"]

\* an AIMessage: calls = <<>> is a final answer, otherwise its tool_calls
AIMessage(tcs) == [k |-> "ai", calls |-> tcs, ref |-> 0, st |-> "-"]

\* the AIMessage that ends a worker's turn, with the text numbered n
Answer(n) == [k |-> "ai", calls |-> <<>>, ref |-> n, st |-> "-"]

\* a ToolMessage answering tool call `id`; st = "error" is the artificial one
\* the middleware appends for a rejected call
ToolMessage(id, st) == [k |-> "tool", calls |-> <<>>, ref |-> id, st |-> st]

\* a checkpoint of a worker thread: the messages channel, whether the graph is
\* finished / waiting in an interrupt, and the Interrupt's action_requests
EmptyCheckpoint == [msgs |-> <<>>, status |-> "NONE", pending |-> <<>>]

\* the text a delegate call returns: an answer's (named by a number) or a
\* fixed one
NoText == [kind |-> "none", n |-> 0]

NoCall ==
  [w |-> "none", pc |-> "none", lmsgs |-> <<>>, shown |-> <<>>, typed |-> "none",
   decision |-> "none", result |-> "none", text |-> NoText, interrupted |-> FALSE]

VARIABLES
  proc,        \* "up": main() is running; "down": it died of an exception
  limit,       \* inputs the environment gives at most in this run
  spent,       \* inputs the environment has given so far
  restarts,    \* times main() was started again
  bootTurns,   \* the user turns there had been when main() was last started
  turns,       \* user turns so far
  delegations, \* delegate tool calls so far
  nextId,      \* the next worker tool call id
  supStore,    \* AsyncSqliteSaver, thread_id "xlp": the saved messages (on disk)
  supMsgs,     \* the supervisor graph's messages channel during a turn
  supPc,       \* "idle" | "model" | "tools" | "suspended" (in an interrupt)
  accum,       \* every message the supervisor's turns produced, in order
  calls,       \* the delegate tool calls of the supervisor's last response
  session,     \* per worker: the latest checkpoint its InMemorySaver holds for
               \* the one thread_id ("<w>_agent") its delegate tool uses
  executed,    \* the tools that ran (the travel database's view), in order
  applied,     \* the decisions the middleware accepted: [id, type, name, args]
  memory,      \* AsyncSqliteStore (./data/Stores/sqlite_store.db): the items put,
               \* oldest first: [ns, key, content]
  demoPc,      \* the demo agent (demo.py): "idle" | "model"
  demoUser,    \* runtime.context.user_id of the demo agent's turn
  injected,    \* the memories ReadStoreMiddleware put into the turn's context
  demoTurns,   \* turns of the demo agent so far
  query,       \* execute_sql: the query the model passes
  sqlPc,       \* execute_sql: "idle" | "called" | "returned"
  handed,      \* execute_sql: the texts the call gave to db.run, in order
  returned,    \* execute_sql: what the last call returned
  flights,     \* travel.db, table flights: flight_id -> hours from now to the
               \* scheduled_departure
  tickets,     \* table tickets: ticket_no -> passenger_id, for the rows there are
  ticket_flights,  \* table ticket_flights: the rows <<ticket_no, flight_id>>
  boarding_passes, \* table boarding_passes: the ticket_no that have rows
  flightCall,  \* the last call of a flight tool and what it returned
  available_cars,    \* table available_cars: id -> [total_quantity,
                     \* rented_quantity, available]
  car_rental_orders, \* table car_rental_orders, by id: [car_id, status]
  carThread,   \* per thread of the tool node: the car tool call it is in
  carCall,     \* the last call of a car tool that returned, and its text
  hotels,      \* table hotels: id -> available_rooms
  hotel_bookings,    \* table hotel_bookings, by booking_id: [hotel, status]
  hotelCall,   \* the last call of a hotel tool and what it returned
  mcpUp,       \* per MCP server: whether it answers get_tools()
  mcpPc,       \* get_mcp_tools: "idle" | "loading" | "loaded" | "raised"
  mcpProgram,  \* the program loading: "demo" (demo.py) | "agent" (agent.py)
  mcpTodo,     \* demo.py's loop: the servers still to ask, in order
  mcpTools     \* the tools get_mcp_tools has collected

travelVars ==
  <<limit, proc, spent, restarts, bootTurns, turns, delegations, nextId, supStore, supMsgs,
    supPc, accum, calls, session, executed, applied>>

demoVars == <<memory, demoPc, demoUser, injected, demoTurns>>

sqlVars == <<query, sqlPc, handed, returned>>

flightVars == <<flights, tickets, ticket_flights, boarding_passes, flightCall>>

carVars == <<available_cars, car_rental_orders, carThread, carCall>>

hotelVars == <<hotels, hotel_bookings, hotelCall>>

mcpVars == <<mcpUp, mcpPc, mcpProgram, mcpTodo, mcpTools>>

dbVars == <<flightVars, carVars, hotelVars, mcpVars>>

vars == <<travelVars, demoVars, sqlVars, dbVars>>

Slots == 1..MaxParallel

(* --------------------------- checkpointers ---------------------------- *)
\* (the supervisor on a saver that lives in memory, as the workers' do)
SupervisorSaverInMemory(store) == <<>>

\* checkpointer=sqlite_saver (a file under ./data/Checkpoints): what the saver
\* holds for the supervisor thread when main() is started again
SupervisorSaverAfterRestart(store) == store

\* checkpointer=InMemorySaver() built inside <w>_subagent(), which main() calls on
\* every start: what the saver holds for the worker thread after a restart
WorkerSaverAfterRestart(ckpt) == EmptyCheckpoint

(* ------------------------ the worker agent loop ----------------------- *)
\* the tool calls of `tcs` the middleware interrupts on
GuardedCalls(w, tcs) == SelectSeq(tcs, LAMBDA tc : Guarded(w, tc.name))

\* HITLRequest.action_requests: one {name, args} per guarded tool call
\* (id is the tool call the request stands for: the middleware keeps the two
\* lists in the same order)
ActionRequests(w, tcs) ==
  LET g == GuardedCalls(w, tcs)
  IN  [i \in 1..Len(g) |-> [id |-> g[i].id, name |-> g[i].name, args |-> g[i].args]]

\* the tools node: every call runs, its ToolMessage is appended
ToolResults(tcs) == [i \in 1..Len(tcs) |-> ToolMessage(tcs[i].id, "ok")]

RunLog(w, tcs) ==
  [i \in 1..Len(tcs) |->
     [id |-> tcs[i].id, w |-> w, name |-> tcs[i].name, args |-> tcs[i].args]]

\* the last AIMessage of a history (the middleware's last_ai_msg)
LastAI(msgs) ==
  LET I == {i \in 1..Len(msgs) : msgs[i].k = "ai"}
  IN  IF I = {} THEN AIMessage(<<>>)
      ELSE msgs[CHOOSE i \in I : \A j \in I : j <= i]

\* tool calls of the history that no ToolMessage answers
Dangling(msgs) ==
  \E i \in 1..Len(msgs) :
    /\ msgs[i].k = "ai"
    /\ \E n \in 1..Len(msgs[i].calls) :
         \A j \in 1..Len(msgs) :
           ~(msgs[j].k = "tool" /\ msgs[j].ref = msgs[i].calls[n].id)

\* the batches of tool calls a worker's model can answer with: any of the
\* worker's tools, in any order, with repetition
Batches(w) == UNION {[1..n -> ToolsOf(w)] : n \in 1..MaxBatch}

\* the arguments the model gives tool call `id`: no code looks into them, so
\* each call gets arguments of its own, which tells a mix-up of two calls
ArgsOf(id) == id * 10

MkCalls(b) ==
  [i \in 1..Len(b) |->
     [id |-> nextId + i - 1, name |-> b[i], args |-> ArgsOf(nextId + i - 1)]]


(* ------------------------------ Init ---------------------------------- *)
\* main() has built the savers, the workers and the supervisor
Started ==
  /\ proc = "up"
  /\ spent = 0
  /\ restarts = 0
  /\ bootTurns = 0
  /\ turns = 0
  /\ delegations = 0
  /\ nextId = 1
  /\ supStore = <<>>
  /\ supMsgs = <<>>
  /\ supPc = "idle"
  /\ accum = <<>>
  /\ calls = [s \in Slots |-> NoCall]
  /\ session = [w \in Workers |-> EmptyCheckpoint]
  /\ executed = <<>>
  /\ applied = {}

\* demo.py's main() has opened the store; no turn yet
DemoStarted ==
  /\ memory = <<>>
  /\ demoPc = "idle"
  /\ demoUser = "none"
  /\ injected = <<>>
  /\ demoTurns = 0

\* execute_sql has not been called
SqlIdle ==
  /\ query = <<>>
  /\ sqlPc = "idle"
  /\ handed = <<>>
  /\ returned = "none"

(* ---- travel.db (./data/DB/travel.db) and the MCP servers: the data ---- *)
\* the rows of table flights; a flight_id outside this set has no row
FlightIds == {1, 2}

\* the flight_id a tool call may name: the rows and one that has none
FlightArgs == {1, 2, 3}

\* hours from datetime.now() to a flight's scheduled_departure
Departures == {2, 3, 4}

TicketNos == {"T1", "T2"}

Passengers == {"p1", "p2"}

\* user_id as a tool call passes it; "" is the falsy one
UserIds == {"p1", "p2", ""}

NoFlightCall ==
  [seq |-> 0, op |-> "none", ticket_no |-> "none", flight_id |-> 0, user_id |-> "", ret |-> "none"]

\* the contents travel.db may have for the flight tables
FlightTables ==
  /\ flights \in [FlightIds -> Departures]
  /\ \E S \in SUBSET TicketNos : tickets \in [S -> Passengers]
  /\ ticket_flights \in SUBSET (TicketNos \X FlightIds)
  /\ boarding_passes \in SUBSET TicketNos

\* one such content: both tickets of p1, each on its flight
FlightTablesGiven ==
  /\ flights = [f \in FlightIds |-> 4]
  /\ tickets = [t \in TicketNos |-> "p1"]
  /\ ticket_flights = {<<"T1", 1>>, <<"T2", 2>>}
  /\ boarding_passes = {"T1"}

\* the rows of table available_cars; a car id outside this set has no row
CarIds == {1, 2}

CarArgs == {1, 2, 3}

\* the largest total_quantity of a car
MaxQuantity == 2

\* the most rows of car_rental_orders
MaxOrders == 3

\* the threads on which calls of a car tool run at the same time; every call
\* opens its own connection to travel.db
CarThreads == {1, 2}

NoRow == [total_quantity |-> 0, rented_quantity |-> 0, available |-> 0]

IdleThread == [pc |-> "idle", op |-> "none", arg |-> 0, row |-> NoRow]

NoCarCall == [seq |-> 0, op |-> "none", arg |-> 0, fault |-> "none", ret |-> "none"]

\* the status an order may have (search_rental_orders names the three); the
\* tools write 'active' and 'cancelled'
OrderStatuses == {"active", "cancelled", "completed"}

\* the orders of a car that are 'active', in a table of orders
ActiveOrders(orders, car) ==
  {i \in DOMAIN orders : orders[i].car_id = car /\ orders[i].status = "active"}

\* the row of a car of total_quantity n of which r are rented
CarRow(n, r) == [total_quantity |-> n, rented_quantity |-> r, available |-> n - r]

\* the orders travel.db may hold before the first call: none or one
OrdersGiven ==
  {<<>>} \cup {<<[car_id |-> c, status |-> st]>> : c \in CarIds, st \in OrderStatuses}

\* the contents travel.db may have for the car tables: every car's
\* rented_quantity is the number of its 'active' orders and within its total
CarTables ==
  /\ car_rental_orders \in OrdersGiven
  /\ \E q \in [CarIds -> 0..MaxQuantity] :
       /\ \A c \in CarIds : Cardinality(ActiveOrders(car_rental_orders, c)) <= q[c]
       /\ available_cars =
            [c \in CarIds |-> CarRow(q[c], Cardinality(ActiveOrders(car_rental_orders, c)))]

CarTablesGiven ==
  /\ available_cars = [c \in CarIds |-> CarRow(1, 0)]
  /\ car_rental_orders = <<>>

CarIdle == carThread = [t \in CarThreads |-> IdleThread] /\ carCall = NoCarCall

\* the rows of table hotels
HotelIds == {1, 2}

HotelArgs == {1, 2, 3}

\* the largest available_rooms of a hotel
MaxRooms == 2

NoHotelCall ==
  [seq |-> 0, op |-> "none", booking_id |-> 0, hotel_id |-> 0, given |-> "missing",
   rooms_needed |-> 0, ret |-> "none"]

\* the contents travel.db may have for the hotel tables: no booking yet
HotelTables ==
  /\ hotels \in [HotelIds -> 0..MaxRooms]
  /\ hotel_bookings = <<>>

HotelTablesGiven ==
  /\ hotels = [h \in HotelIds |-> 1]
  /\ hotel_bookings = <<>>

\* the servers config.get_mcp_tools_config() names, in the order of the dict
McpServers == <<"s1", "s2", "s3", "s4">>

McpNames == {McpServers[i] : i \in DOMAIN McpServers}

McpIdle ==
  /\ mcpPc = "idle"
  /\ mcpProgram = "none"
  /\ mcpTodo = <<>>
  /\ mcpTools = {}

\* every table as given, every server up, no tool call and no loading yet
DbGiven ==
  /\ FlightTablesGiven /\ flightCall = NoFlightCall
  /\ CarTablesGiven /\ CarIdle
  /\ HotelTablesGiven /\ hotelCall = NoHotelCall
  /\ mcpUp = [s \in McpNames |-> TRUE] /\ McpIdle

Init == limit = MaxInputs /\ Started /\ DemoStarted /\ SqlIdle /\ DbGiven

\* the same program, the environment giving one input more
InitDeep == limit = MaxInputs + 1 /\ Started /\ DemoStarted /\ SqlIdle /\ DbGiven

(* --------------------------- the supervisor --------------------------- *)
\* main(): one pass of the input loop up to blog_agent.ainvoke: the graph loads
\* the thread's checkpoint, adds the HumanMessage and saves
UserTurn ==
  /\ proc = "up" /\ supPc = "idle" /\ spent < limit
  /\ spent' = spent + 1
  /\ turns' = turns + 1
  /\ supMsgs' = Append(supStore, HumanMessage)
  /\ supStore' = supMsgs'
  /\ accum' = Append(accum, HumanMessage)
  /\ supPc' = "model"
  /\ UNCHANGED <<demoVars, sqlVars, dbVars, limit, bootTurns, proc, restarts, delegations, nextId, calls, session, executed, applied>>

\* the supervisor's model answers with text: the turn ends
SupervisorFinal ==
  /\ proc = "up" /\ supPc = "model"
  /\ supStore' = Append(supMsgs, AIMessage(<<>>))
  /\ accum' = Append(accum, AIMessage(<<>>))
  /\ supMsgs' = <<>>
  /\ supPc' = "idle"
  /\ UNCHANGED <<demoVars, sqlVars, dbVars, limit, bootTurns, proc, spent, restarts, turns, delegations, nextId, calls, session, executed, applied>>

\* the tool calls of a supervisor response: ws[i] names the delegate tool
DelegateCalls(ws) ==
  [i \in 1..Len(ws) |-> [id |-> delegations + i, name |-> ws[i], args |-> "query"]]

\* the supervisor's model answers with n delegate tool calls.  A call with an
\* interrupt_on entry would stop the supervisor's graph in an interrupt; with
\* none, the tools node starts one task per call, all in the same step of the
\* graph
SupervisorDelegate ==
  /\ proc = "up" /\ supPc = "model"
  /\ \E n \in 1..MaxParallel :
       /\ spent + n <= limit
       /\ spent' = spent + n
       /\ \E ws \in [1..n -> Workers] :
            /\ supMsgs' = Append(supMsgs, AIMessage(DelegateCalls(ws)))
            /\ IF \E i \in 1..n : SupervisorGuarded(ws[i])
               THEN calls' = calls /\ supPc' = "suspended"
               ELSE /\ calls' = [s \in Slots |->
                                   IF s <= n THEN [NoCall EXCEPT !.w = ws[s], !.pc = "start"]
                                   ELSE NoCall]
                    /\ supPc' = "tools"
       /\ delegations' = delegations + n
  /\ supStore' = supMsgs'
  /\ accum' = Append(accum, supMsgs'[Len(supMsgs')])
  /\ UNCHANGED <<demoVars, sqlVars, dbVars, limit, bootTurns, proc, restarts, turns, nextId, session, executed, applied>>

\* the ToolMessage a finished delegate call leaves in the supervisor's history
DelegateResults ==
  LET act == {s \in Slots : calls[s].pc # "none"}
  IN  [i \in 1..Cardinality(act) |-> ToolMessage(delegations - Cardinality(act) + i, calls[i].result)]

\* every delegate call of the response has returned: their ToolMessages are
\* added in the order of the calls, and the model is asked again
SupervisorCollect ==
  /\ proc = "up" /\ supPc = "tools"
  /\ \A s \in Slots : calls[s].pc \in {"none", "done"}
  /\ supMsgs' = supMsgs \o DelegateResults
  /\ supStore' = supMsgs'
  /\ accum' = accum \o DelegateResults
  /\ calls' = [s \in Slots |-> NoCall]
  /\ supPc' = "model"
  /\ UNCHANGED <<demoVars, sqlVars, dbVars, limit, bootTurns, proc, spent, restarts, turns, delegations, nextId, session, executed, applied>>

\* a delegate call raised: nothing catches it (the tools node re-raises what is
\* not a ToolInvocationError, main() has no handler): the process dies
SupervisorRaise ==
  /\ proc = "up" /\ supPc = "tools"
  /\ \A s \in Slots : calls[s].pc \in {"none", "done", "raised"}
  /\ \E s \in Slots : calls[s].pc = "raised"
  /\ proc' = "down"
  /\ UNCHANGED <<demoVars, sqlVars, dbVars, limit, bootTurns, spent, restarts, turns, delegations, nextId, supStore, supMsgs, supPc, accum,
                 calls, session, executed, applied>>

\* the process is killed (at any point) or has died, and main() is started
\* again: what lived in memory is gone, what is on disk is read back
Restart ==
  /\ spent < limit
  /\ spent' = spent + 1
  /\ restarts' = restarts + 1
  /\ bootTurns' = turns
  /\ proc' = "up"
  /\ supPc' = "idle"
  /\ supMsgs' = <<>>
  /\ calls' = [s \in Slots |-> NoCall]
  /\ supStore' = SupervisorSaverAfterRestart(supStore)
  /\ session' = [w \in Workers |-> WorkerSaverAfterRestart(session[w])]
  /\ UNCHANGED <<demoVars, sqlVars, dbVars, limit, turns, delegations, nextId, accum, executed, applied>>


(* ------------------- the delegate tools and the workers ---------------- *)
Running(c) == proc = "up" /\ calls[c].pc \in {"invoking", "resuming"}

\* (every worker on one saver and one thread_id)
SessionKeyShared(w) == "flight"

\* the session a delegate tool works on: the worker's own InMemorySaver (built
\* in <w>_subagent()) under the thread_id "<w>_agent" of call_<w>_subagent
SessionKey(w) == w

\* the text of a message (.content): an answer carries its own text, named by
\* a number; the text next to tool calls and the bookkeeping of a ToolMessage
\* are not told apart
Content(m) ==
  IF m.k = "ai" /\ m.calls = <<>>
  THEN [kind |-> "answer", n |-> m.ref]
  ELSE [kind |-> "other", n |-> 0]

\* the fixed text handle_permission_confirmation returns after a reject
CancelledText == [kind |-> "cancelled", n |-> 0]

\* (a delegate call that hands the Interrupt back as a sentinel text instead of
\* asking the user itself)
InvokeReturnsSentinel(call, interrupt, reqs) ==
  IF call.pc = "invoking" /\ ~interrupt
  THEN [call EXCEPT !.pc = "done", !.result = "answer"]
  ELSE IF interrupt
       THEN [call EXCEPT !.pc = "done", !.interrupted = TRUE, !.result = "sentinel"]
       ELSE [call EXCEPT !.pc = "done",
                         !.result = IF call.decision = "approve" THEN "answer"
                                    ELSE "cancelled"]

\* (a delegate call that returns the text of the first message of the result)
InvokeReturnsFirstMessage(call, interrupt, reqs) ==
  IF call.pc = "invoking" /\ interrupt
  THEN [call EXCEPT !.pc = "confirm", !.interrupted = TRUE, !.shown = reqs[1]]
  ELSE [call EXCEPT !.pc = "done", !.result = "answer",
                    !.text = Content(call.lmsgs[1])]

\* what agent.invoke of a delegate call hands back when the worker's graph
\* stops, and what the delegate call makes of it:
\*  - call_<w>_subagent: an __interrupt__ leads into
\*    handle_permission_confirmation, otherwise result['messages'][-1].content
\*  - handle_permission_confirmation after approve: the content of the last
\*    AIMessage, whether the graph finished or not; after reject: the fixed
\*    text, whatever the graph did
InvokeReturns(call, interrupt, reqs) ==
  IF call.pc = "invoking"
  THEN IF interrupt
       THEN [call EXCEPT !.pc = "confirm", !.interrupted = TRUE, !.shown = reqs[1]]
       ELSE [call EXCEPT !.pc = "done", !.result = "answer",
                         !.text = Content(call.lmsgs[Len(call.lmsgs)])]
  ELSE IF call.decision = "approve"
       THEN [call EXCEPT !.pc = "done",
                         !.result = IF interrupt THEN "tool_call_content" ELSE "answer",
                         !.text = Content(LastAI(call.lmsgs))]
       ELSE [call EXCEPT !.pc = "done", !.result = "cancelled", !.text = CancelledText]

\* call_<w>_subagent up to agent.invoke({"messages": [HumanMessage(query)]}):
\* the graph loads the thread's checkpoint, drops the tasks it left unfinished
\* (a pending interrupt is one), adds the message and saves
DelegateInvoke(c) ==
  /\ proc = "up" /\ calls[c].pc = "start"
  /\ LET k == SessionKey(calls[c].w)
         l == Append(session[k].msgs, HumanMessage)
     IN  /\ session' = [session EXCEPT ![k] = [msgs |-> l, status |-> "RUNNING", pending |-> <<>>]]
         /\ calls' = [calls EXCEPT ![c].pc = "invoking", ![c].lmsgs = l]
  /\ UNCHANGED <<demoVars, sqlVars, dbVars, limit, bootTurns, proc, spent, restarts, turns, delegations, nextId, supStore, supMsgs, supPc,
                 accum, executed, applied>>

\* the worker's model answers with text: the graph ends, invoke returns
WorkerFinal(c) ==
  /\ Running(c)
  /\ LET k == SessionKey(calls[c].w)
         l == Append(calls[c].lmsgs, Answer(Len(calls[c].lmsgs) + 1))
     IN  /\ session' = [session EXCEPT ![k] = [msgs |-> l, status |-> "COMPLETED", pending |-> <<>>]]
         /\ calls' = [calls EXCEPT ![c] = InvokeReturns([calls[c] EXCEPT !.lmsgs = l], FALSE, <<>>)]
  /\ UNCHANGED <<demoVars, sqlVars, dbVars, limit, bootTurns, proc, spent, restarts, turns, delegations, nextId, supStore, supMsgs, supPc,
                 accum, executed, applied>>

\* the tools whose body is inside try / except Exception and returns the
\* error as text: create_rental_order, update_rental_order, cancel_rental_order
Catches(w, t) ==
  w = "car" /\ t \in {"create_rental_order", "update_rental_order", "cancel_rental_order"}

\* the tools node has run `tcs`, the f-th of them meeting a failure (a database
\* error, a malformed date); f = 0: none
Raises(w, tcs, f) == f # 0 /\ ~Catches(w, tcs[f].name)

ToolOutcomes(tcs, f) ==
  [i \in 1..Len(tcs) |->
     IF i = f THEN ToolMessage(tcs[i].id, "failed") ELSE ToolResults(tcs)[i]]

\* a failure is one input of the environment
Failure(f) == IF f = 0 THEN 0 ELSE 1

\* the worker's model answers with tool calls.  after_model: with a guarded
\* call among them the middleware interrupts (one Interrupt, one action
\* request per guarded call) and invoke returns; with none, the tools node
\* runs them all and the loop goes on, unless a tool raises: the tools node
\* re-raises what is not a ToolInvocationError, and so does invoke
WorkerToolCalls(c) ==
  /\ Running(c)
  /\ \E b \in Batches(calls[c].w) :
       /\ spent + Len(b) <= limit
       /\ nextId' = nextId + Len(b)
       /\ LET w == calls[c].w
              k == SessionKey(w)
              tcs == MkCalls(b)
              l == Append(calls[c].lmsgs, AIMessage(tcs))
              reqs == ActionRequests(w, tcs)
          IN  IF reqs = <<>>
              THEN \E f \in 0..Len(b) :
                     /\ spent + Len(b) + Failure(f) <= limit
                     /\ spent' = spent + Len(b) + Failure(f)
                     /\ executed' = executed \o RunLog(w, tcs)
                     /\ IF Raises(w, tcs, f)
                        THEN /\ session' = [session EXCEPT ![k] =
                                  [msgs |-> l, status |-> "RUNNING", pending |-> <<>>]]
                             /\ calls' = [calls EXCEPT ![c].pc = "raised", ![c].lmsgs = l,
                                                       ![c].result = "tool_exception"]
                        ELSE /\ session' = [session EXCEPT ![k] =
                                  [msgs |-> l \o ToolOutcomes(tcs, f), status |-> "RUNNING",
                                   pending |-> <<>>]]
                             /\ calls' = [calls EXCEPT ![c].lmsgs = l \o ToolOutcomes(tcs, f)]
              ELSE /\ spent + Len(b) <= limit
                   /\ spent' = spent + Len(b)
                   /\ executed' = executed
                   /\ session' = [session EXCEPT ![k] =
                        [msgs |-> l, status |-> "SUSPENDED", pending |-> reqs]]
                   /\ calls' = [calls EXCEPT ![c] =
                        InvokeReturns([calls[c] EXCEPT !.lmsgs = l], TRUE, reqs)]
  /\ UNCHANGED <<demoVars, sqlVars, dbVars, limit, bootTurns, proc, restarts, turns, delegations, supStore, supMsgs, supPc, accum, applied>>

\* the model provider refuses a history in which a tool call has no answer
\* (it may also accept it: WorkerFinal, WorkerToolCalls): invoke raises
WorkerModelError(c) ==
  /\ Running(c)
  /\ Dangling(calls[c].lmsgs)
  /\ calls' = [calls EXCEPT ![c].pc = "raised"]
  /\ UNCHANGED <<demoVars, sqlVars, dbVars, limit, bootTurns, proc, spent, restarts, turns, delegations, nextId, supStore, supMsgs, supPc,
                 accum, session, executed, applied>>

\* (a reject that leaves the rejected call to the tools node)
ToRunDespiteReject(g, tcs, d) == tcs

\* the decision the middleware takes for the one guarded call `g` of the
\* interrupted response `tcs`: approve keeps the call for the tools node,
\* reject answers it with an artificial ToolMessage; the tools node then runs
\* every call that has no answer yet
ToRun(g, tcs, d) ==
  IF d = "approve" THEN tcs ELSE SelectSeq(tcs, LAMBDA tc : tc.id # g.id)

Answered(g, d) == IF d = "approve" THEN <<>> ELSE <<ToolMessage(g.id, "error")>>

\* what the user can type at the prompt of Confirm.ask
Answers == {"y", "n", "", "maybe"}

\* Confirm.ask(..., default=False): "y" / "n" are the choices, the empty input
\* is the default, anything else is asked again
Recognized(a) == a \in {"y", "n", ""}

Approval(a) ==
  CASE a = "y" -> TRUE
    [] a = "n" -> FALSE
    [] a = "" -> FALSE

\* if approval: ... {"type": "approve"} else: ... {"type": "reject"}
DecisionOf(a) == IF Approval(a) THEN "approve" ELSE "reject"

\* handle_permission_confirmation, the user typing something Confirm.ask does
\* not take: it asks again
Reprompt(c, a) ==
  /\ proc = "up" /\ calls[c].pc = "confirm"
  /\ ~Recognized(a)
  /\ calls[c].typed # a
  /\ calls' = [calls EXCEPT ![c].typed = a]
  /\ UNCHANGED <<demoVars, sqlVars, dbVars, limit, bootTurns, proc, spent, restarts, turns, delegations, nextId, supStore, supMsgs, supPc,
                 accum, session, executed, applied>>

\* handle_permission_confirmation: Confirm.ask takes the answer `a`, then
\* agent.invoke(Command(resume={"decisions": [{"type": d}]})).  The graph loads
\* the thread's latest checkpoint.  In an interrupt, the middleware takes the
\* decisions: it raises ValueError unless there are as many decisions as action
\* requests; the tools node then runs the calls left to it, the f-th of them
\* meeting a failure (f = 0: none).  Not in an interrupt, there is nothing to
\* decide: a finished graph returns its state, an unfinished one goes on.
Confirm(c, a) ==
  /\ proc = "up" /\ calls[c].pc = "confirm"
  /\ Recognized(a)
  /\ LET w == calls[c].w
         k == SessionKey(w)
         d == DecisionOf(a)
         ck == session[k]
         tcs == LastAI(ck.msgs).calls
         call == [calls[c] EXCEPT !.decision = d, !.typed = a]
     IN  IF ck.status = "SUSPENDED"
         THEN IF Len(ck.pending) # 1
              THEN /\ calls' = [calls EXCEPT ![c] = [call EXCEPT !.pc = "raised"]]
                   /\ UNCHANGED <<spent, session, executed, applied>>
              ELSE LET g == ck.pending[1]
                       run == ToRun(g, tcs, d)
                   IN  \E f \in 0..Len(run) :
                         /\ spent + Failure(f) <= limit
                         /\ spent' = spent + Failure(f)
                         /\ executed' = executed \o RunLog(w, run)
                         /\ applied' = applied \cup
                              {[id |-> g.id, type |-> d, name |-> g.name, args |-> g.args]}
                         /\ IF Raises(w, run, f)
                            THEN /\ session' = [session EXCEPT ![k] =
                                      [msgs |-> ck.msgs \o Answered(g, d), status |-> "RUNNING",
                                       pending |-> <<>>]]
                                 /\ calls' = [calls EXCEPT ![c] =
                                      [call EXCEPT !.pc = "raised", !.result = "tool_exception",
                                                   !.lmsgs = ck.msgs \o Answered(g, d)]]
                            ELSE LET l == ck.msgs \o Answered(g, d) \o ToolOutcomes(run, f)
                                 IN  /\ session' = [session EXCEPT ![k] =
                                          [msgs |-> l, status |-> "RUNNING", pending |-> <<>>]]
                                     /\ calls' = [calls EXCEPT ![c] =
                                          [call EXCEPT !.pc = "resuming", !.lmsgs = l]]
         ELSE /\ calls' = [calls EXCEPT ![c] =
                   IF ck.status = "RUNNING"
                   THEN [call EXCEPT !.pc = "resuming", !.lmsgs = ck.msgs]
                   ELSE InvokeReturns([call EXCEPT !.pc = "resuming", !.lmsgs = ck.msgs],
                                      FALSE, <<>>)]
              /\ UNCHANGED <<spent, session, executed, applied>>
  /\ UNCHANGED <<demoVars, sqlVars, dbVars, limit, bootTurns, proc, restarts, turns, delegations, nextId, supStore, supMsgs, supPc, accum>>

(* --------------------------- specification ---------------------------- *)
Next ==
  \/ UserTurn
  \/ SupervisorFinal
  \/ SupervisorDelegate
  \/ SupervisorCollect
  \/ SupervisorRaise
  \/ Restart
  \/ \E c \in Slots : DelegateInvoke(c)
  \/ \E c \in Slots : WorkerFinal(c)
  \/ \E c \in Slots : WorkerToolCalls(c)
  \/ \E c \in Slots : WorkerModelError(c)
  \/ \E c \in Slots, a \in Answers : Reprompt(c, a)
  \/ \E c \in Slots, a \in Answers : Confirm(c, a)

Spec == Init /\ [][Next]_vars

SpecDeep == InitDeep /\ [][Next]_vars


(* ------------------ the demo agent and its memory store ---------------- *)
\* runtime.context.user_id: demo.py passes Context(user_id="xlp"); the two
\* middlewares take whatever user the context names
DemoUsers == {"xlp", "guest"}

\* name_space = (user_id, "memories")
NameSpace(u) == <<u, "memories">>

\* store.asearch(name_space) is called with no limit: the store's default
\* applies, at most 10 items
SearchLimit == 10

\* the items of the store under a namespace, oldest first
ItemsOf(ns) == SelectSeq(memory, LAMBDA it : it.ns = ns)

\* store.asearch(name_space): at most SearchLimit items of the namespace; the
\* order is the store's: `newest` tells whether it lists the newest items first
Search(ns, newest) ==
  LET all == ItemsOf(ns)
      n == IF Len(all) <= SearchLimit THEN Len(all) ELSE SearchLimit
  IN  IF newest
      THEN [i \in 1..n |-> all[Len(all) + 1 - i]]
      ELSE [i \in 1..n |-> all[i]]

\* ReadStoreMiddleware.abefore_agent, at the start of blog_agent.ainvoke: the
\* contents of the memories found, one line each, in a SystemMessage
DemoTurn(u, newest) ==
  /\ demoPc = "idle" /\ demoTurns < MaxDemoTurns
  /\ demoTurns' = demoTurns + 1
  /\ demoUser' = u
  /\ injected' = [i \in 1..Len(Search(NameSpace(u), newest)) |->
                    Search(NameSpace(u), newest)[i].content]
  /\ demoPc' = "model"
  /\ UNCHANGED <<travelVars, sqlVars, dbVars, memory>>

\* the demo agent's loop ends with an answer (its text named by the number of
\* the turn); SaveStoreMiddleware.aafter_agent puts the content of the last
\* message under a new uuid4 key (named by the number of the put)
DemoFinal ==
  /\ demoPc = "model"
  /\ memory' = Append(memory, [ns |-> NameSpace(demoUser), key |-> Len(memory) + 1,
                               content |-> demoTurns])
  /\ demoPc' = "idle"
  /\ UNCHANGED <<travelVars, sqlVars, dbVars, demoUser, injected, demoTurns>>

NextDemo ==
  \/ \E u \in DemoUsers, newest \in BOOLEAN : DemoTurn(u, newest)
  \/ DemoFinal

SpecDemo == Init /\ [][NextDemo]_vars


(* ----------------------------- execute_sql ----------------------------- *)
\* a query is a sequence of words and semicolons; the case of letters and the
\* white space between words are left out.  "t" is a name, "vacuum" a
\* statement that is no SELECT and none of the words of DENY_RE, "limit 1" a
\* LIMIT clause
SqlTokens == {"select", "t", ";", "drop", "update", "vacuum", "limit 1"}

Queries == UNION {[1..n -> SqlTokens] : n \in 0..MaxQueryLen}

\* DENY_RE
DenyWords ==
  {"insert", "update", "delete", "alter", "drop", "create", "replace", "truncate"}

ErrorMultiple == <<"Error: multiple statements are not allowed.">>

ErrorNotSelect == <<"Error: only SELECT statements are allowed.">>

ErrorDenied == <<"Error: DML/DDL detected. Only read-only queries are permitted.">>

GuardErrors == {ErrorMultiple, ErrorNotSelect, ErrorDenied}

\* q.count(";")
CountSemicolons(q) == Cardinality({i \in 1..Len(q) : q[i] = ";"})

\* q.rstrip(";")
RECURSIVE RStripSemicolons(_)
RStripSemicolons(q) ==
  IF q # <<>> /\ q[Len(q)] = ";"
  THEN RStripSemicolons(SubSeq(q, 1, Len(q) - 1))
  ELSE q

\* HAS_LIMIT_TAIL_RE.search(q)
HasLimitTail(q) == q # <<>> /\ q[Len(q)] = "limit 1"

\* _safe_sql: the guard's error message, or the query to run
SafeSql(q0) ==
  IF \/ CountSemicolons(q0) > 1
     \/ /\ q0 # <<>> /\ q0[Len(q0)] = ";"
        /\ \E i \in 1..(Len(q0) - 1) : q0[i] = ";"
  THEN ErrorMultiple
  ELSE LET q == RStripSemicolons(q0)
       IN  IF ~(q # <<>> /\ q[1] = "select") THEN ErrorNotSelect
           ELSE IF \E i \in 1..Len(q) : q[i] \in DenyWords THEN ErrorDenied
           ELSE IF HasLimitTail(q) THEN q
           ELSE Append(q, "limit 5")

\* the model calls execute_sql(query)
SqlCall ==
  /\ sqlPc = "idle"
  /\ query' \in Queries
  /\ sqlPc' = "called"
  /\ UNCHANGED <<travelVars, demoVars, dbVars, handed, returned>>

\* execute_sql: q = _safe_sql(query); str(db.run(q)), or "Error: ..." when
\* db.run raises.  A guard's error message is no SQL: the database refuses it.
\* What a database makes of a text with several statements is its driver's
\* affair: it runs them or refuses them
ExecuteSql ==
  /\ sqlPc = "called"
  /\ handed' = Append(handed, SafeSql(query))
  /\ \/ /\ SafeSql(query) \notin GuardErrors
        /\ returned' = "rows"
     \/ /\ \/ SafeSql(query) \in GuardErrors
           \/ \E i \in 1..Len(SafeSql(query)) : SafeSql(query)[i] = ";"
        /\ returned' = "Error: the database's"
  /\ sqlPc' = "returned"
  /\ UNCHANGED <<travelVars, demoVars, dbVars, query>>

\* the tool's result is with the model; execute_sql keeps nothing from one
\* call to the next
SqlDone ==
  /\ sqlPc = "returned"
  /\ query' = <<>>
  /\ sqlPc' = "idle"
  /\ handed' = <<>>
  /\ returned' = "none"
  /\ UNCHANGED <<travelVars, demoVars, dbVars>>

NextSql == SqlCall \/ ExecuteSql \/ SqlDone

SpecSql == Init /\ [][NextSql]_vars

(* ----------------- the flight tools on travel.db ----------------------- *)
\* time_until < (3 * 3600): the hours a flight must be ahead to be taken
MinHoursAhead == 3

\* the rows of ticket_flights a ticket_no has
FlightsOfTicket(ticket_no) == {r \in ticket_flights : r[1] = ticket_no}

\* the ownership check left out
UpdateRefusalNoOwner(ticket_no, new_flight_id, user_id) ==
  IF user_id = "" THEN "no passenger id"
  ELSE IF new_flight_id \notin DOMAIN flights THEN "invalid flight id"
  ELSE IF flights[new_flight_id] < MinHoursAhead THEN "departure in less than 3 hours"
  ELSE IF FlightsOfTicket(ticket_no) = {} THEN "no ticket found"
  ELSE "none"

\* update_ticket_to_new_flight, the checks in the order of the code: the text
\* the first failing one returns, "none" when all pass
UpdateRefusal(ticket_no, new_flight_id, user_id) ==
  IF user_id = "" THEN "no passenger id"
  ELSE IF new_flight_id \notin DOMAIN flights THEN "invalid flight id"
  ELSE IF flights[new_flight_id] < MinHoursAhead THEN "departure in less than 3 hours"
  ELSE IF FlightsOfTicket(ticket_no) = {} THEN "no ticket found"
  ELSE IF ~(ticket_no \in DOMAIN tickets /\ tickets[ticket_no] = user_id) THEN "not the owner"
  ELSE "none"

\* UPDATE ticket_flights SET flight_id = ? WHERE ticket_no = ?, committed
UpdateTicketToNewFlight(ticket_no, new_flight_id, user_id) ==
  LET refusal == UpdateRefusal(ticket_no, new_flight_id, user_id)
  IN  /\ IF refusal = "none"
         THEN ticket_flights' =
                {<<r[1], IF r[1] = ticket_no THEN new_flight_id ELSE r[2]>> : r \in ticket_flights}
         ELSE UNCHANGED ticket_flights
      /\ flightCall' = [seq |-> 1 - flightCall.seq, op |-> "update_ticket_to_new_flight",
                        ticket_no |-> ticket_no, flight_id |-> new_flight_id,
                        user_id |-> user_id,
                        ret |-> IF refusal = "none" THEN "updated" ELSE refusal]
      /\ UNCHANGED <<flights, tickets, boarding_passes>>
      /\ UNCHANGED <<travelVars, demoVars, sqlVars, carVars, hotelVars, mcpVars>>

\* cancel_ticket, the checks in the order of the code
CancelRefusal(ticket_no, user_id) ==
  IF user_id = "" THEN "no passenger id"
  ELSE IF FlightsOfTicket(ticket_no) = {} THEN "no ticket found"
  ELSE IF ~(ticket_no \in DOMAIN tickets /\ tickets[ticket_no] = user_id) THEN "not the owner"
  ELSE "none"

\* the boarding passes left where they are
DeletedButPasses(ticket_no) ==
  [boarding_passes |-> boarding_passes,
   ticket_flights |-> ticket_flights \ FlightsOfTicket(ticket_no),
   tickets |-> [t \in DOMAIN tickets \ {ticket_no} |-> tickets[t]]]

\* the three DELETE ... WHERE ticket_no = ? and the one commit after them
Deleted(ticket_no) ==
  [boarding_passes |-> boarding_passes \ {ticket_no},
   ticket_flights |-> ticket_flights \ FlightsOfTicket(ticket_no),
   tickets |-> [t \in DOMAIN tickets \ {ticket_no} |-> tickets[t]]]

CancelTicket(ticket_no, user_id) ==
  LET refusal == CancelRefusal(ticket_no, user_id)
  IN  /\ IF refusal = "none"
         THEN /\ boarding_passes' = Deleted(ticket_no).boarding_passes
              /\ ticket_flights' = Deleted(ticket_no).ticket_flights
              /\ tickets' = Deleted(ticket_no).tickets
         ELSE UNCHANGED <<boarding_passes, ticket_flights, tickets>>
      /\ flightCall' = [seq |-> 1 - flightCall.seq, op |-> "cancel_ticket",
                        ticket_no |-> ticket_no, flight_id |-> 0, user_id |-> user_id,
                        ret |-> IF refusal = "none" THEN "cancelled" ELSE refusal]
      /\ UNCHANGED flights
      /\ UNCHANGED <<travelVars, demoVars, sqlVars, carVars, hotelVars, mcpVars>>

NextFlight ==
  \/ \E t \in TicketNos, f \in FlightArgs, u \in UserIds : UpdateTicketToNewFlight(t, f, u)
  \/ \E t \in TicketNos, u \in UserIds : CancelTicket(t, u)

\* the flight tools called in any order on any content of the flight tables
InitFlight ==
  /\ limit = MaxInputs /\ Started /\ DemoStarted /\ SqlIdle
  /\ FlightTables /\ flightCall = NoFlightCall
  /\ CarTablesGiven /\ CarIdle
  /\ HotelTablesGiven /\ hotelCall = NoHotelCall
  /\ mcpUp = [s \in McpNames |-> TRUE] /\ McpIdle

SpecFlight == InitFlight /\ [][NextFlight]_vars

(* ------------------- loading the MCP tool providers -------------------- *)
\* the program starts and calls its get_mcp_tools(): demo.py in main(),
\* agent.py at import (mcp_tools = load_mcp_tools())
McpStart(p) ==
  /\ mcpPc = "idle"
  /\ mcpProgram' = p
  /\ mcpPc' = "loading"
  /\ mcpTodo' = McpServers
  /\ mcpTools' = {}
  /\ UNCHANGED mcpUp
  /\ UNCHANGED <<travelVars, demoVars, sqlVars, flightVars, carVars, hotelVars>>

\* demo.py: one turn of the loop over mcp_servers.items(): a client for the one
\* server, its get_tools() awaited inside try; a failure is printed and the
\* loop goes on to the next server
DemoGetTools ==
  /\ mcpPc = "loading" /\ mcpProgram = "demo" /\ mcpTodo # <<>>
  /\ mcpTools' = IF mcpUp[Head(mcpTodo)] THEN mcpTools \cup {Head(mcpTodo)} ELSE mcpTools
  /\ mcpTodo' = Tail(mcpTodo)
  /\ mcpPc' = IF Tail(mcpTodo) = <<>> THEN "loaded" ELSE "loading"
  /\ UNCHANGED <<mcpUp, mcpProgram>>
  /\ UNCHANGED <<travelVars, demoVars, sqlVars, flightVars, carVars, hotelVars>>

\* agent.py: one MultiServerMCPClient over all the servers, and one
\* get_tools() with no try around it: it gathers the tools of every server and
\* raises when one of them fails; the exception leaves load_mcp_tools() and
\* ends the import of the module
AgentGetTools ==
  /\ mcpPc = "loading" /\ mcpProgram = "agent"
  /\ IF \A s \in McpNames : mcpUp[s]
     THEN mcpTools' = McpNames /\ mcpPc' = "loaded"
     ELSE mcpTools' = {} /\ mcpPc' = "raised"
  /\ mcpTodo' = <<>>
  /\ UNCHANGED <<mcpUp, mcpProgram>>
  /\ UNCHANGED <<travelVars, demoVars, sqlVars, flightVars, carVars, hotelVars>>

NextMcp ==
  \/ \E p \in {"demo", "agent"} : McpStart(p)
  \/ DemoGetTools
  \/ AgentGetTools

\* either program started with any of the servers failing
InitMcp ==
  /\ limit = MaxInputs /\ Started /\ DemoStarted /\ SqlIdle
  /\ FlightTablesGiven /\ flightCall = NoFlightCall
  /\ CarTablesGiven /\ CarIdle
  /\ HotelTablesGiven /\ hotelCall = NoHotelCall
  /\ mcpUp \in [McpNames -> BOOLEAN] /\ McpIdle

SpecMcp == InitMcp /\ [][NextMcp]_vars

(* ------------------- the car tools on travel.db ------------------------ *)
\* what may go wrong in a call after its checks: nothing; strptime raises on
\* a malformed date (before the first write); the database raises on the
\* second write
Faults == {"none", "dates", "write"}

\* the order ids a tool call may name: rows and one that has none
OrderArgs == 1..(MaxOrders + 1)

\* SELECT available, price_per_day, rented_quantity, total_quantity FROM
\* available_cars WHERE id = ?
SelectCar(car_id) == IF car_id \in DOMAIN available_cars THEN available_cars[car_id] ELSE NoRow

\* create_rental_order, its two checks on the row it read
CreateRefusal(car_id, row) ==
  IF car_id \notin DOMAIN available_cars THEN "car not found"
  ELSE IF row.available = 0 \/ row.rented_quantity >= row.total_quantity THEN "car unavailable"
  ELSE "none"

\* INSERT INTO car_rental_orders (..., 'active')
InsertOrder(car_id) == Append(car_rental_orders, [car_id |-> car_id, status |-> "active"])

\* UPDATE available_cars SET rented_quantity = ?, available = ? WHERE id = ?
\* with the values computed from the row read before
UpdateCar(car_id, row, rented) ==
  [available_cars EXCEPT ![car_id].rented_quantity = rented,
                         ![car_id].available = row.total_quantity - rented]

\* (a connection that commits every statement as it is executed)
CreateCommittedEach(car_id, row, fault) ==
  IF fault = "none"
  THEN [orders |-> InsertOrder(car_id), cars |-> UpdateCar(car_id, row, row.rented_quantity + 1)]
  ELSE IF fault = "write"
  THEN [orders |-> InsertOrder(car_id), cars |-> available_cars]
  ELSE [orders |-> car_rental_orders, cars |-> available_cars]

\* what the call has committed when it returns: the INSERT and the UPDATE are
\* in one transaction that conn.commit() ends; an exception leads to `except`,
\* whose conn.close() drops what was not committed
CreateCommitted(car_id, row, fault) ==
  IF fault = "none"
  THEN [orders |-> InsertOrder(car_id), cars |-> UpdateCar(car_id, row, row.rented_quantity + 1)]
  ELSE [orders |-> car_rental_orders, cars |-> available_cars]

\* create_rental_order as one call
CreateRentalOrder(car_id, fault) ==
  LET row == SelectCar(car_id)
      refusal == CreateRefusal(car_id, row)
  IN  /\ Len(car_rental_orders) < MaxOrders
      /\ IF refusal = "none"
         THEN /\ car_rental_orders' = CreateCommitted(car_id, row, fault).orders
              /\ available_cars' = CreateCommitted(car_id, row, fault).cars
         ELSE UNCHANGED <<car_rental_orders, available_cars>>
      /\ carCall' = [seq |-> 1 - carCall.seq, op |-> "create_rental_order", arg |-> car_id,
                     fault |-> fault,
                     ret |-> IF refusal # "none" THEN refusal
                             ELSE IF fault = "none" THEN "created" ELSE "failed"]
      /\ UNCHANGED carThread
      /\ UNCHANGED <<travelVars, demoVars, sqlVars, flightVars, hotelVars, mcpVars>>

\* (the test of the status left out)
CancelRefusalNoStatus(order_id) ==
  IF order_id \notin DOMAIN car_rental_orders THEN "order not found"
  ELSE "none"

\* cancel_rental_order, its two checks on the order it read
CancelOrderRefusal(order_id) ==
  IF order_id \notin DOMAIN car_rental_orders THEN "order not found"
  ELSE IF car_rental_orders[order_id].status = "cancelled" THEN "already cancelled"
  ELSE "none"

\* max(0, rented_quantity - 1)
Decremented(n) == IF n - 1 > 0 THEN n - 1 ELSE 0

\* cancel_rental_order as one call: the order set to 'cancelled', the car's
\* rented_quantity one less (not below 0), both in one transaction
CancelRentalOrder(order_id, fault) ==
  LET refusal == CancelOrderRefusal(order_id)
  IN  /\ IF refusal = "none" /\ fault = "none"
         THEN LET car_id == car_rental_orders[order_id].car_id
                  row == SelectCar(car_id)
              IN  /\ car_rental_orders' =
                       [car_rental_orders EXCEPT ![order_id].status = "cancelled"]
                  /\ available_cars' =
                       IF car_id \in DOMAIN available_cars
                       THEN UpdateCar(car_id, row, Decremented(row.rented_quantity))
                       ELSE available_cars
         ELSE UNCHANGED <<car_rental_orders, available_cars>>
      /\ carCall' = [seq |-> 1 - carCall.seq, op |-> "cancel_rental_order", arg |-> order_id,
                     fault |-> fault,
                     ret |-> IF refusal # "none" THEN refusal
                             ELSE IF fault = "none" THEN "cancelled" ELSE "failed"]
      /\ UNCHANGED carThread
      /\ UNCHANGED <<travelVars, demoVars, sqlVars, flightVars, hotelVars, mcpVars>>

NextCar ==
  \/ \E c \in CarArgs, fault \in Faults : CreateRentalOrder(c, fault)
  \/ \E o \in OrderArgs, fault \in {"none", "write"} : CancelRentalOrder(o, fault)

\* the car tools called one after the other on any content of the car tables
InitCar ==
  /\ limit = MaxInputs /\ Started /\ DemoStarted /\ SqlIdle
  /\ FlightTablesGiven /\ flightCall = NoFlightCall
  /\ CarTables /\ CarIdle
  /\ HotelTablesGiven /\ hotelCall = NoHotelCall
  /\ mcpUp = [s \in McpNames |-> TRUE] /\ McpIdle

SpecCar == InitCar /\ [][NextCar]_vars

\* create_rental_order on a thread, up to the point where it has read the
\* car's row and passed (or failed) its checks; the connection holds no lock
\* between this SELECT and its first write
ThreadSelect(t, car_id) ==
  LET row == SelectCar(car_id)
      refusal == CreateRefusal(car_id, row)
      reading == {u \in CarThreads : carThread[u].pc = "read"}
  IN  /\ carThread[t].pc = "idle"
      /\ Len(car_rental_orders) + Cardinality(reading) < MaxOrders
      /\ IF refusal = "none"
         THEN /\ carThread' = [carThread EXCEPT ![t] =
                     [pc |-> "read", op |-> "create_rental_order", arg |-> car_id, row |-> row]]
              /\ UNCHANGED carCall
         ELSE /\ carCall' = [seq |-> 1 - carCall.seq, op |-> "create_rental_order",
                             arg |-> car_id, fault |-> "none", ret |-> refusal]
              /\ UNCHANGED carThread
      /\ UNCHANGED <<car_rental_orders, available_cars>>
      /\ UNCHANGED <<travelVars, demoVars, sqlVars, flightVars, hotelVars, mcpVars>>

\* the rest of the call: the INSERT, the UPDATE with the quantities computed
\* from the row the thread read, and the commit; the database lets one
\* connection write at a time, so the transaction is one step
ThreadCommit(t) ==
  /\ carThread[t].pc = "read"
  /\ car_rental_orders' = InsertOrder(carThread[t].arg)
  /\ available_cars' =
       UpdateCar(carThread[t].arg, carThread[t].row, carThread[t].row.rented_quantity + 1)
  /\ carThread' = [carThread EXCEPT ![t] = IdleThread]
  /\ carCall' = [seq |-> 1 - carCall.seq, op |-> "create_rental_order",
                 arg |-> carThread[t].arg, fault |-> "none", ret |-> "created"]
  /\ UNCHANGED <<travelVars, demoVars, sqlVars, flightVars, hotelVars, mcpVars>>

NextCarThreads ==
  \/ \E t \in CarThreads, c \in CarArgs : ThreadSelect(t, c)
  \/ \E t \in CarThreads : ThreadCommit(t)

\* create_rental_order called on two threads at the same time
SpecCarThreads == InitCar /\ [][NextCarThreads]_vars

(* ------------------ the hotel tools on travel.db ----------------------- *)
\* booking_id as a call passes it; 0 stands for None
BookingArgs == {0, 1, 2}

\* rooms_needed as a call passes it; 0 stands for None and for what is < 1
RoomArgs == 0..(MaxRooms + 1)

\* if rooms_needed is None or rooms_needed < 1: rooms_needed = 1
RoomsNeeded(rooms_needed) == IF rooms_needed < 1 THEN 1 ELSE rooms_needed

\* (the test of the available rooms left out)
BookRefusalNoRooms(hotel_id, given, rooms_needed) ==
  IF given = "missing" THEN "missing parameters"
  ELSE IF given = "reversed" THEN "check-out not after check-in"
  ELSE IF hotel_id \notin DOMAIN hotels THEN "hotel not found"
  ELSE "none"

\* what a call may pass for passenger_id, check_in_date and check_out_date:
\* "missing": one of the three is not given; "reversed": all are given and
\* str(check_in_date) >= str(check_out_date); "ordered": all are given and
\* check-in is before check-out
Given == {"missing", "reversed", "ordered"}

\* book_hotel with a hotel_id: the checks in the order of the code
BookRefusal(hotel_id, given, rooms_needed) ==
  IF given = "missing" THEN "missing parameters"
  ELSE IF given = "reversed" THEN "check-out not after check-in"
  ELSE IF hotel_id \notin DOMAIN hotels THEN "hotel not found"
  ELSE IF hotels[hotel_id] < RoomsNeeded(rooms_needed) THEN "not enough rooms"
  ELSE "none"

\* UPDATE hotel_bookings SET status = ? WHERE booking_id = ?
SetStatus(booking_id, st) ==
  IF booking_id \in DOMAIN hotel_bookings
  THEN [hotel_bookings EXCEPT ![booking_id].status = st]
  ELSE hotel_bookings

\* book_hotel: with a booking_id it confirms the booking; otherwise with a
\* hotel_id it inserts a 'Confirmed' booking and takes the rooms from the
\* hotel, both committed together; with neither it returns a text
BookHotel(booking_id, hotel_id, given, rooms_needed) ==
  LET refusal == BookRefusal(hotel_id, given, rooms_needed)
      call == [seq |-> 1 - hotelCall.seq, op |-> "book_hotel", booking_id |-> booking_id,
               hotel_id |-> hotel_id, given |-> given, rooms_needed |-> rooms_needed,
               ret |-> "none"]
  IN  /\ IF booking_id # 0
         THEN /\ hotel_bookings' = SetStatus(booking_id, "Confirmed")
              /\ hotelCall' = [call EXCEPT !.ret = IF booking_id \in DOMAIN hotel_bookings
                                                    THEN "confirmed" ELSE "booking not found"]
              /\ UNCHANGED hotels
         ELSE IF hotel_id # 0
         THEN IF refusal = "none"
              THEN /\ hotel_bookings' =
                        Append(hotel_bookings, [hotel |-> hotel_id, status |-> "Confirmed"])
                   /\ hotels' = [hotels EXCEPT ![hotel_id] = @ - RoomsNeeded(rooms_needed)]
                   /\ hotelCall' = [call EXCEPT !.ret = "booked"]
              ELSE /\ hotelCall' = [call EXCEPT !.ret = refusal]
                   /\ UNCHANGED <<hotels, hotel_bookings>>
         ELSE /\ hotelCall' = [call EXCEPT !.ret = "neither id given"]
              /\ UNCHANGED <<hotels, hotel_bookings>>
      /\ UNCHANGED <<travelVars, demoVars, sqlVars, flightVars, carVars, mcpVars>>

\* update_hotel: it writes dates of the booking, which the tables here do not
\* hold; `given`: "ordered" when a date is passed, "missing" when none is
UpdateHotel(booking_id, given) ==
  /\ hotelCall' = [seq |-> 1 - hotelCall.seq, op |-> "update_hotel", booking_id |-> booking_id,
                   hotel_id |-> 0, given |-> given, rooms_needed |-> 0,
                   ret |-> IF given # "missing" /\ booking_id \in DOMAIN hotel_bookings
                           THEN "updated" ELSE "booking not found"]
  /\ UNCHANGED <<hotels, hotel_bookings>>
  /\ UNCHANGED <<travelVars, demoVars, sqlVars, flightVars, carVars, mcpVars>>

\* cancel_hotel: the booking's status set to 'Cancelled'; the hotel's
\* available_rooms is not written
CancelHotel(booking_id) ==
  /\ hotel_bookings' = SetStatus(booking_id, "Cancelled")
  /\ hotelCall' = [seq |-> 1 - hotelCall.seq, op |-> "cancel_hotel", booking_id |-> booking_id,
                   hotel_id |-> 0, given |-> "missing", rooms_needed |-> 0,
                   ret |-> IF booking_id \in DOMAIN hotel_bookings
                           THEN "cancelled" ELSE "booking not found"]
  /\ UNCHANGED hotels
  /\ UNCHANGED <<travelVars, demoVars, sqlVars, flightVars, carVars, mcpVars>>

NextHotel ==
  \/ \E b \in BookingArgs \ {0} : BookHotel(b, 0, "missing", 0)
  \/ \E h \in HotelArgs, given \in Given, n \in RoomArgs : BookHotel(0, h, given, n)
  \/ BookHotel(0, 0, "missing", 0)
  \/ \E b \in BookingArgs \ {0}, given \in {"missing", "ordered"} : UpdateHotel(b, given)
  \/ \E b \in BookingArgs \ {0} : CancelHotel(b)

\* the hotel tools called one after the other on any content of table hotels
InitHotel ==
  /\ limit = MaxInputs /\ Started /\ DemoStarted /\ SqlIdle
  /\ FlightTablesGiven /\ flightCall = NoFlightCall
  /\ CarTablesGiven /\ CarIdle
  /\ HotelTables /\ hotelCall = NoHotelCall
  /\ mcpUp = [s \in McpNames |-> TRUE] /\ McpIdle

SpecHotel == InitHotel /\ [][NextHotel]_vars


(* ------------------------------- claims -------------------------------- *)
\* how often tool call `id` ran
Runs(id) == Cardinality({i \in 1..Len(executed) : executed[i].id = id})

\* the policy entry of tool t of worker w requires a decision
RequiresDecision(w, t) == InterruptOn(w)[t] = {"approve", "reject"}

ActiveCalls == {c \in Slots : calls[c].pc # "none"}

\* C1: for every worker and every tool whose policy entry requires a decision,
\* the tool has run only for tool calls to which an approve decision was applied
\* before; a call with no decision, or with a reject decision, has never run.
C1_GuardedRunsOnlyApproved ==
  /\ \A i \in 1..Len(executed) :
       RequiresDecision(executed[i].w, executed[i].name) =>
         \E a \in applied : a.id = executed[i].id /\ a.type = "approve"
  /\ \A a \in applied : a.type = "reject" => Runs(a.id) = 0

\* a guarded tool has run, after the approve applied to its call
C1_Witness ==
  \E i \in 1..Len(executed) :
    /\ RequiresDecision(executed[i].w, executed[i].name)
    /\ \E a \in applied : a.id = executed[i].id /\ a.type = "approve"

\* C2: once the user has approved the guarded call shown to them, that call has
\* run exactly once, with the name and arguments of the Interrupt, and the
\* worker is in its loop again (or has left it with its answer).
C2_ApprovedRunsOnce ==
  \A c \in Slots :
    calls[c].decision = "approve" =>
      /\ Cardinality({i \in 1..Len(executed) :
                        /\ executed[i].id = calls[c].shown.id
                        /\ executed[i].name = calls[c].shown.name
                        /\ executed[i].args = calls[c].shown.args}) = 1
      /\ Runs(calls[c].shown.id) = 1
      /\ calls[c].pc \in {"resuming", "done"}

\* C3: once the user has rejected the guarded call shown to them, that call has
\* not run, its Interrupt is consumed (the worker has left SUSPENDED for its
\* loop), and the delegate call returns the text "cancelled by the user".
C3_RejectCancels ==
  \A c \in Slots :
    calls[c].decision = "reject" =>
      /\ Runs(calls[c].shown.id) = 0
      /\ \E a \in applied : a.id = calls[c].shown.id /\ a.type = "reject"
      /\ calls[c].pc \in {"resuming", "done"}
      /\ calls[c].pc = "done" => calls[c].result = "cancelled"

\* C4 as claimed: a delegate call whose worker returned an Interrupt sends no
\* decision itself; it returns a sentinel and the decision comes with a later
\* delegate call.
C4_SentinelThenLaterDecision ==
  \A c \in Slots :
    calls[c].interrupted =>
      /\ calls[c].decision = "none"
      /\ calls[c].pc = "done" => calls[c].result = "sentinel"

\* C4 as amended: a delegate call whose worker returned an Interrupt does not
\* return before it has asked the user itself and sent the answer as the
\* Decision to the worker, in the same invocation; it then returns the fixed
\* cancellation text (reject) or the content of the worker's last AIMessage
\* (approve), never a sentinel.
C4_DecisionInSameCall ==
  \A c \in Slots :
    (calls[c].interrupted /\ calls[c].pc = "done") =>
      /\ calls[c].decision \in Decisions
      /\ calls[c].decision = "reject" => calls[c].result = "cancelled"
      /\ calls[c].decision = "approve" =>
           calls[c].result \in {"answer", "tool_call_content"}

\* a delegate call has returned after an Interrupt that the user approved
C4_Witness ==
  \E c \in Slots :
    calls[c].interrupted /\ calls[c].pc = "done" /\ calls[c].decision = "approve"

\* C5: a Decision reaches a worker session only while it is SUSPENDED, and
\* applying it consumes the Interrupt: the decision the handler sent is the one
\* the middleware applied to the call shown.
C5_DecisionConsumesInterrupt ==
  \A c \in Slots :
    calls[c].decision # "none" =>
      \E a \in applied : a.id = calls[c].shown.id /\ a.type = calls[c].decision

\* C6: a worker session has at most one pending action request at any time, so
\* the one decision of a resume is as many as there are action requests.
C6_OnePendingRequest ==
  /\ \A w \in Workers : Len(session[w].pending) <= 1
  /\ \A c \in Slots : calls[c].decision # "none" => calls[c].pc # "raised"

\* C7: when the process is started again, a worker session that was SUSPENDED
\* is still SUSPENDED, with the same Interrupt.
C7_SuspendedSurvivesRestart ==
  [][\A w \in Workers :
       (restarts' = restarts + 1 /\ session[w].status = "SUSPENDED") =>
         (session'[w].status = "SUSPENDED" /\ session'[w].pending = session[w].pending)]_vars

\* C8: the messages the checkpoint store holds for the supervisor thread are, in
\* order, the messages its turns produced, also after a restart; and a turn
\* works on that history.
C8_HistoryRoundTrip ==
  /\ supStore = accum
  /\ supPc # "idle" => supMsgs = accum

\* the process was started again after the first turn had ended, and the second
\* turn works on the first turn's messages followed by its own
C8_Witness ==
  /\ restarts = 1 /\ bootTurns = 1 /\ turns = 2 /\ supPc = "model"
  /\ Len(supMsgs) >= 3
  /\ supMsgs[1] = HumanMessage
  /\ supMsgs[Len(supMsgs) - 1].k = "ai"
  /\ supMsgs[Len(supMsgs)] = HumanMessage

\* C9: a SUSPENDED worker session keeps its Interrupt until a Decision is
\* applied; in particular a later delegate call with a new message (one at a
\* time, the process running on) does not change it.
C9_SuspendedUntilDecision ==
  [][\A w \in Workers :
       (/\ session[w].status = "SUSPENDED"
        /\ restarts' = restarts
        /\ applied' = applied
        /\ Cardinality(ActiveCalls) <= 1) =>
         session'[w] = session[w]]_vars

\* C10: no two delegate calls are at work on the same worker thread at once.
InFlight(c) == calls[c].pc \in {"invoking", "confirm", "resuming"}

C10_OneTurnPerWorkerThread ==
  \A c1, c2 \in Slots :
    (c1 # c2 /\ InFlight(c1) /\ InFlight(c2)) => calls[c1].w # calls[c2].w

\* C11: the supervisor's graph never stops in an interrupt of its own: none of
\* its delegate tools is guarded; a session that is SUSPENDED is a worker's,
\* stopped before tool calls whose policy entry requires a decision.
C11_SupervisorNeverSuspends ==
  /\ supPc # "suspended"
  /\ \A t \in Workers : ~SupervisorGuarded(t)
  /\ \A w \in Workers :
       session[w].status = "SUSPENDED" =>
         /\ session[w].pending # <<>>
         /\ \A i \in 1..Len(session[w].pending) :
              RequiresDecision(w, session[w].pending[i].name)

\* the supervisor has delegated and is in its tools node while the worker it
\* called is SUSPENDED
C11_Witness ==
  /\ supPc = "tools"
  /\ \E c \in Slots :
       calls[c].pc = "confirm" /\ session[calls[c].w].status = "SUSPENDED"

\* C12: for each of the four workers the policy (interrupt_on) has an entry for
\* exactly the tools of the worker's tool set, and every entry is either
\* "always allowed" (False) or requires a decision from exactly
\* {approve, reject}; so every tool call a worker has run or is waiting on
\* has its policy entry.
C12_PolicyComplete ==
  /\ \A w \in Workers :
       /\ DOMAIN InterruptOn(w) = ToolsOf(w)
       /\ \A t \in ToolsOf(w) : InterruptOn(w)[t] \in {{}, {"approve", "reject"}}
  /\ \A i \in 1..Len(executed) :
       executed[i].name \in DOMAIN InterruptOn(executed[i].w)
  /\ \A w \in Workers : \A i \in 1..Len(session[w].pending) :
       session[w].pending[i].name \in DOMAIN InterruptOn(w)

\* a worker has run a tool whose entry is False and is SUSPENDED before a tool
\* whose entry requires a decision
C12_Witness ==
  \E w \in Workers :
    /\ session[w].status = "SUSPENDED"
    /\ \E i \in 1..Len(session[w].pending) :
         InterruptOn(w)[session[w].pending[i].name] = {"approve", "reject"}
    /\ \E i \in 1..Len(executed) :
         executed[i].w = w /\ InterruptOn(w)[executed[i].name] = {}

C14_FinalAnswerVerbatim ==
  \A c \in Slots :
    LET l == calls[c].lmsgs
    IN  (/\ calls[c].pc = "done"
         /\ calls[c].decision # "reject"
         /\ l[Len(l)].k = "ai" /\ l[Len(l)].calls = <<>>)
        => calls[c].text = [kind |-> "answer", n |-> l[Len(l)].ref]

\* a delegate call has returned the final answer of a turn that was resumed
\* with an approve decision
C14_Witness ==
  \E c \in Slots :
    /\ calls[c].pc = "done" /\ calls[c].decision = "approve"
    /\ calls[c].lmsgs[Len(calls[c].lmsgs)] = Answer(Len(calls[c].lmsgs))
    /\ calls[c].text = [kind |-> "answer", n |-> Len(calls[c].lmsgs)]

\* C15: a decision is sent to a worker only for an answer that says yes or no:
\* for any other input, the empty one included, the user is asked again and
\* neither approve nor reject is applied.
C15_AmbiguousNeverDecides ==
  \A c \in Slots :
    calls[c].decision # "none" => calls[c].typed \in {"y", "n"}

\* C16: a step of a delegate call to one worker (its invoke, its worker's loop,
\* its resume) leaves the latest checkpoint and history of every other
\* worker's session and of the supervisor's session as they were.
C16_SessionsIndependent ==
  [][\A c \in Slots :
       (/\ calls[c].pc # "none"
        /\ calls'[c] # calls[c]
        /\ calls'[c].w = calls[c].w)
       => /\ \A w2 \in Workers \ {calls[c].w} : session'[w2] = session[w2]
          /\ supStore' = supStore
          /\ supMsgs' = supMsgs]_vars

\* one worker has finished a turn while another is SUSPENDED, both called from
\* the same supervisor turn
C16_Witness ==
  \E w1, w2 \in Workers :
    /\ w1 # w2
    /\ session[w1].status = "SUSPENDED"
    /\ session[w2].status = "COMPLETED"
    /\ supPc = "tools" /\ supStore # <<>>

\* the supervisor turns that ended with a final answer
CompletedTurns ==
  Cardinality({i \in 1..Len(accum) : accum[i].k = "ai" /\ accum[i].calls = <<>>})

\* the demo agent's turns that ended
CompletedDemoTurns == IF demoPc = "model" THEN demoTurns - 1 ELSE demoTurns

\* C17: the store holds one memory entry for every completed turn, of the
\* travel supervisor and of the demo agent alike, each under a key of its own.
C17_EntryPerCompletedTurn ==
  /\ Len(memory) = CompletedTurns + CompletedDemoTurns
  /\ \A i, j \in 1..Len(memory) : i # j => memory[i].key # memory[j].key

\* C18: the memories put into a turn's context are all the entries written
\* before under the user's namespace, however many, and no entry of another
\* namespace.
C18_ReadInjectsAll ==
  demoPc = "model" =>
    /\ \A i \in 1..Len(memory) :
         memory[i].ns = NameSpace(demoUser) =>
           \E j \in 1..Len(injected) : injected[j] = memory[i].content
    /\ \A j \in 1..Len(injected) :
         \E i \in 1..Len(memory) :
           memory[i].ns = NameSpace(demoUser) /\ memory[i].content = injected[j]

\* C19: a failure inside a worker tool reaches the worker's loop as the text of
\* a tool result; no delegate call ends with the exception of a tool.
C19_ToolFailureIsText ==
  \A c \in Slots :
    calls[c].pc = "raised" => calls[c].result # "tool_exception"

\* a query holds more than one statement: something before and something
\* after one of its semicolons
SeveralStatements(q) ==
  \E i \in 1..Len(q) :
    /\ q[i] = ";"
    /\ \E j \in 1..(i - 1) : q[j] # ";"
    /\ \E j \in (i + 1)..Len(q) : q[j] # ";"

\* C20: for a query that holds more than one statement, or does not start with
\* SELECT, or has one of the words of DENY_RE, execute_sql gives the database
\* nothing of the caller's: what db.run gets is never the caller's statements.
C20_RejectsAllButSingleSelect ==
  (sqlPc = "returned" /\
   (\/ SeveralStatements(query)
    \/ ~(query # <<>> /\ query[1] = "select")
    \/ \E i \in 1..Len(query) : query[i] \in DenyWords))
  => handed[Len(handed)] \in GuardErrors

\* a step that is a call of the flight tool `op`
FlightCallOf(op) == flightCall'.seq # flightCall.seq /\ flightCall'.op = op

\* the conditions of a rebooking, on the tables as the call finds them
MayRebook(c) ==
  /\ c.flight_id \in DOMAIN flights
  /\ flights[c.flight_id] >= MinHoursAhead
  /\ FlightsOfTicket(c.ticket_no) # {}
  /\ c.ticket_no \in DOMAIN tickets /\ tickets[c.ticket_no] = c.user_id

UpdateRefusals ==
  {"no passenger id", "invalid flight id", "departure in less than 3 hours", "no ticket found",
   "not the owner"}

MayCancel(c) ==
  /\ FlightsOfTicket(c.ticket_no) # {}
  /\ c.ticket_no \in DOMAIN tickets /\ tickets[c.ticket_no] = c.user_id

\* C22: cancel_ticket removes the ticket's rows from boarding_passes,
\* ticket_flights and tickets, all three in the one step, only when the
\* ticket exists and is the requesting user's; otherwise no row is removed
C22_CancelRemovesAllOrNothing ==
  [][FlightCallOf("cancel_ticket") =>
       IF MayCancel(flightCall')
       THEN /\ boarding_passes' = boarding_passes \ {flightCall'.ticket_no}
            /\ \A r \in ticket_flights' : r[1] # flightCall'.ticket_no
            /\ flightCall'.ticket_no \notin DOMAIN tickets'
            /\ \A t \in DOMAIN tickets \ {flightCall'.ticket_no} :
                 t \in DOMAIN tickets' /\ tickets'[t] = tickets[t]
            /\ \A r \in ticket_flights : r[1] # flightCall'.ticket_no => r \in ticket_flights'
            /\ UNCHANGED flights
       ELSE UNCHANGED <<flights, tickets, ticket_flights, boarding_passes>>]_vars

\* a ticket was cancelled and none of the three tables has a row of it, while
\* the other ticket kept its rows
C22_Witness ==
    /\ flightCall.op = "cancel_ticket" /\ flightCall.ret = "cancelled"
    /\ flightCall.ticket_no \notin DOMAIN tickets
    /\ flightCall.ticket_no \notin boarding_passes
    /\ FlightsOfTicket(flightCall.ticket_no) = {}
    /\ \E t \in DOMAIN tickets : t \in boarding_passes /\ FlightsOfTicket(t) # {}

\* C23: loading the MCP tool providers keeps the failure of one server to that
\* server: the loading never ends by raising, and when it has ended the tools
\* of every server that answers are loaded
C23_LoadIsolatesFailures ==
  /\ mcpPc # "raised"
  /\ mcpPc = "loaded" => mcpTools = {s \in McpNames : mcpUp[s]}

\* C24: when a delegate call returns, the worker it invoked has no pending
\* Interrupt: the step in which call_<w>_subagent returns leaves the worker's
\* session not SUSPENDED (an Interrupt raised after a resume included)
C24_ReturnsWithNothingPending ==
  [][\A c \in Slots :
       (calls[c].pc # "done" /\ calls'[c].pc = "done") =>
         session'[SessionKey(calls'[c].w)].status # "SUSPENDED"]_vars

\* a step that is a call of the car tool `op`
CarCallOf(op) == carCall'.seq # carCall.seq /\ carCall'.op = op

\* C25: after any sequence of create_rental_order and cancel_rental_order
\* calls on tables where it held, every car has 0 <= rented_quantity <=
\* total_quantity, available = total_quantity - rented_quantity, and
\* rented_quantity is the number of the car's 'active' orders
C25_QuantitiesConsistent ==
  \A c \in CarIds :
    LET row == available_cars[c]
    IN  /\ 0 <= row.rented_quantity /\ row.rented_quantity <= row.total_quantity
        /\ row.available = row.total_quantity - row.rented_quantity
        /\ row.rented_quantity = Cardinality(ActiveOrders(car_rental_orders, c))

\* the call has committed one 'active' order of the car and one more rented
CreatedOne(car_id) ==
  /\ car_id \in CarIds
  /\ car_rental_orders' = Append(car_rental_orders, [car_id |-> car_id, status |-> "active"])
  /\ available_cars'[car_id].rented_quantity = available_cars[car_id].rented_quantity + 1
  /\ \A c \in CarIds \ {car_id} : available_cars'[c] = available_cars[c]

\* C26: create_rental_order is all-or-nothing: it commits one 'active' order
\* together with the car's rented_quantity raised by one, or, for an unknown
\* car, an unavailable car or an error (a malformed date, a failing write),
\* it commits nothing and both tables are as they were
C26_CreateAllOrNothing ==
  [][CarCallOf("create_rental_order") =>
       LET c == carCall'
           row == SelectCar(c.arg)
           refused == \/ c.arg \notin CarIds
                      \/ row.available = 0
                      \/ row.rented_quantity >= row.total_quantity
                      \/ c.fault # "none"
       IN  /\ CreatedOne(c.arg) \/ UNCHANGED <<car_rental_orders, available_cars>>
           /\ refused => UNCHANGED <<car_rental_orders, available_cars>>
           /\ c.ret = "created" <=> CreatedOne(c.arg)]_vars

\* a call failed on its second write and left the tables with the one
\* 'active' order they had, the car's rented_quantity as it was
C26_Witness ==
  /\ carCall.op = "create_rental_order" /\ carCall.ret = "failed" /\ carCall.fault = "write"
  /\ Len(car_rental_orders) = 1
  /\ car_rental_orders[1].status = "active"
  /\ available_cars[carCall.arg].rented_quantity =
       Cardinality(ActiveOrders(car_rental_orders, carCall.arg))

\* C27: cancel_rental_order on an order that is already 'cancelled' changes
\* nothing and says so; a call lowers a car's rented_quantity only when it
\* turns the order it names from not cancelled to 'cancelled', so no more
\* than once for an order
C27_CancelIdempotent ==
  [][CarCallOf("cancel_rental_order") =>
       LET o == carCall'.arg
       IN  /\ (o \in DOMAIN car_rental_orders /\ car_rental_orders[o].status = "cancelled") =>
                /\ UNCHANGED <<car_rental_orders, available_cars>>
                /\ carCall'.ret = "already cancelled"
           /\ (\E c \in CarIds :
                 available_cars'[c].rented_quantity # available_cars[c].rented_quantity) =>
                /\ o \in DOMAIN car_rental_orders
                /\ car_rental_orders[o].status # "cancelled"
                /\ car_rental_orders'[o].status = "cancelled"]_vars

\* an order was created, cancelled, and cancelled again
C27_Witness ==
  /\ carCall.op = "cancel_rental_order" /\ carCall.ret = "already cancelled"
  /\ \E c \in CarIds : available_cars[c].total_quantity > 0 /\ available_cars[c].rented_quantity = 0
                       /\ car_rental_orders[carCall.arg].car_id = c

\* C28: two create_rental_order calls running at the same time for one car
\* cannot oversell it: whatever the order of their reads and writes, the
\* car's committed 'active' orders are no more than its total_quantity and
\* rented_quantity is their number
C28_NoOversell ==
  \A c \in CarIds :
    /\ Cardinality(ActiveOrders(car_rental_orders, c)) <= available_cars[c].total_quantity
    /\ available_cars[c].rented_quantity = Cardinality(ActiveOrders(car_rental_orders, c))

\* a step that is a call of a hotel tool
HotelCall == hotelCall'.seq # hotelCall.seq

\* C29: after any sequence of book_hotel, update_hotel and cancel_hotel calls
\* every hotel's available_rooms is >= 0; book_hotel creates a booking only
\* when the hotel has at least rooms_needed rooms (1 when the call passes
\* none or less than 1) and then takes exactly that many from the hotel and
\* none from another; a call that books nothing leaves hotels as it was, and
\* a failed one hotel_bookings too
C29_RoomsNeverNegative ==
  [][HotelCall =>
       LET c == hotelCall'
           n == RoomsNeeded(c.rooms_needed)
       IN  /\ \A h \in HotelIds : hotels'[h] >= 0
           /\ Len(hotel_bookings') > Len(hotel_bookings) =>
                /\ c.op = "book_hotel" /\ c.ret = "booked"
                /\ c.hotel_id \in HotelIds
                /\ hotels[c.hotel_id] >= n
                /\ hotels' = [hotels EXCEPT ![c.hotel_id] = @ - n]
                /\ hotel_bookings' =
                     Append(hotel_bookings, [hotel |-> c.hotel_id, status |-> "Confirmed"])
           /\ c.ret # "booked" => UNCHANGED hotels
           /\ (c.op = "book_hotel" /\ c.ret \notin {"booked", "confirmed"}) =>
                UNCHANGED <<hotels, hotel_bookings>>]_vars

\* a booking took the last two rooms of a hotel
C29_Witness ==
  /\ hotelCall.op = "book_hotel" /\ hotelCall.ret = "booked"
  /\ hotelCall.rooms_needed = 2
  /\ hotels[hotelCall.hotel_id] = 0
  /\ hotel_bookings # <<>>

\* C30: when the guard rejects the query, execute_sql returns the guard's
\* error message and the database is not called at all; what the database is
\* called with is never a guard's error message
C30_RejectedNeverReachesDb ==
  sqlPc = "returned" =>
    /\ SafeSql(query) \in GuardErrors => (handed = <<>> /\ returned = SafeSql(query)[1])
    /\ \A i \in 1..Len(handed) : handed[i] \notin GuardErrors

====
